---- MODULE Spec2Model ----
(***************************************************************************)
(* Connection lifecycle and telemetry decoding of the Hyena E-Bike BLE     *)
(* coordinator (coordinator.py) and of the config-entry setup/unload       *)
(* (__init__.py), and the config flows of the integration                  *)
(* (config_flow.py).                                                       *)
(*                                                                         *)
(* The coordinator runs on one asyncio event loop: a step of the model is  *)
(* the code a task or callback runs between two suspension points (await). *)
(* The BLE adapter (bleak) is the environment: it completes or fails the   *)
(* calls made on it, drops links, and delivers notification and            *)
(* disconnection callbacks at times of its own choosing.                   *)
(***************************************************************************)
EXTENDS Integers, Sequences, FiniteSets, TLC

\* ------------------------------------------------------------------ bounds
MaxReconn == 1      \* reconnection tasks that may be alive at once
MaxIdle == 2        \* idle-disconnect tasks that may be alive at once
MaxLinks == 2       \* link objects the adapter may have at once
MaxShutdowns == 2   \* calls of async_shutdown in a run
MaxPayloadLen == 3  \* payload bytes of a generated notification frame
MaxAddresses == 2   \* device addresses that flows are started for
MaxFlows == 3       \* config flows started in a run

\* --------------------------------------------------------------- constants
\* The voltage tag (const.py) taken for the battery tag
PACKET_ID_VOLTAGE == 1
PACKET_ID_BATTERY_SOC == 10
PACKET_ID_TEMPERATURE == 7
FRAME_DELIMITER == <<238, 0, 0, 0, 0, 0, 0, 0>>
\* DISCONNECT_DELAY is 120 s in the source; one time unit here is 60 s.
DISCONNECT_DELAY == 2

\* Generated frames: the two handled tags, a known but unhandled tag (voltage)
\* and the delimiter's first byte, with payload bytes zero and 0xEB
TestTags == {1, 7, 10, 238}
TestPayloadBytes == {0, 235}

\* ------------------------------------------------------------------- tasks
First == <<"first", 1>>            \* async_config_entry_first_refresh
Tick == <<"tick", 1>>              \* the scheduler's periodic refresh
Shut == <<"shut", 1>>              \* async_shutdown (from async_unload_entry)
Env == <<"env", 0>>                \* the adapter / the clock
ReconnTasks == {<<"reconn", i>> : i \in 1..MaxReconn}
IdleTasks == {<<"idle", i>> : i \in 1..MaxIdle}
UpdateTasks == {First, Tick} \cup ReconnTasks
DisconnectTasks == {Shut} \cup IdleTasks
Tasks == UpdateTasks \cup DisconnectTasks

NoTask == <<"none", 0>>
NoLink == 0
Links == 1..MaxLinks

\* --------------------------------------------------------------- telemetry
NoBattery == -1                     \* data[SENSOR_BATTERY] is None
NoTemperature == <<>>               \* data[SENSOR_TEMPERATURE] is None
NoFrame == <<>>
NoPacket == [packet_id |-> -1, parsed_value |-> -1]

\* ------------------------------------------------------------ config flows
Addresses == 1..MaxAddresses        \* Bluetooth addresses (the unique ids)
Flows == 1..MaxFlows
NoId == 0                           \* a flow's unique_id is None
NoName == <<>>                      \* discovery_info.name is None or empty
DEVICE_NAME == <<"X", "W", "T", "K", "0", "0", "0", "0", "8", "O", "X", "W">>
\* Advertised names: none, a proper prefix of DEVICE_NAME, DEVICE_NAME itself
\* and DEVICE_NAME followed by a suffix
ScanNames == {NoName, <<"X", "W", "T", "K">>, DEVICE_NAME}
TestNames == ScanNames \cup {DEVICE_NAME \o <<"-", "2">>}
\* A flow not yet started; source is the flow's context source
IdleFlow == [source |-> "none", step |-> "idle", unique_id |-> NoId,
             name |-> NoName, choices |-> {}]

VARIABLES
  pc,               \* position of every task
  lockQ,            \* _connection_lock: Head is the holder, the rest wait (FIFO)
  client,           \* _client: NoLink (None) or a link object
  linkOpen,         \* links whose is_connected is true
  subscribed,       \* links with _notification_handler subscribed
  pendingCb,        \* links closed by disconnect() whose callback is not yet delivered
  expected,         \* _expected_disconnect
  disconnect_task,  \* _disconnect_task: NoTask (None) or an idle task
  remaining,        \* time left of each idle task's asyncio.sleep
  idleFor,          \* time since the link came up or the last reading
  data,             \* coordinator.data
  entry,            \* config entry: "setup", "loaded", "not_ready", "unloaded"
  firstRefresh,     \* outcome of the first refresh: "pending", "ok", "failed"
  shutdowns,        \* completed async_shutdown calls
  raced,            \* reconnection tasks that a shutdown overtook at the lock
  last,             \* what the latest step did (calls made, error raised)
  cfgEntries,       \* config entries of the domain: their number per address
  flows             \* config flows: step, unique id, discovery name, choices

vars == <<pc, lockQ, client, linkOpen, subscribed, pendingCb,
          expected, disconnect_task, remaining, idleFor, data,
          entry, firstRefresh, shutdowns, raced, last, cfgEntries, flows>>

coordinatorVars == <<pc, lockQ, client, linkOpen, subscribed, pendingCb,
                     expected, disconnect_task, remaining, idleFor, data,
                     entry, firstRefresh, shutdowns, raced, last>>
flowVars == <<cfgEntries, flows>>

linkVars == <<linkOpen, subscribed, pendingCb>>
timerVars == <<disconnect_task, remaining>>
setupVars == <<entry, firstRefresh>>

Min(a, b) == IF a < b THEN a ELSE b

\* What the latest step did, as far as its caller or the adapter can see it:
\* the operation that returned or raised, the calls it made, the error it
\* raised, the frame handled. A step that is no return, raise or callback
\* leaves no record.
Returns == {"init", "update_noop", "ensure_noop", "resolve_failed",
            "establish_failed", "subscribe_failed", "subscribed",
            "disconnect_noop", "stop_notify_failed", "disconnected",
            "disconnect_failed", "notify"}
Step(t, op, calls, err, frame, link) ==
  IF op \in Returns
    THEN [task |-> t, op |-> op, calls |-> calls, err |-> err, frame |-> frame]
    ELSE [task |-> Env, op |-> "step", calls |-> {}, err |-> "none",
          frame |-> NoFrame]

\* ------------------------------------------------------------ frame decoder
\* The two bytes read in little-endian order ("<H")
UnpackLE16(b) == b[2] * 256 + b[1]

\* struct.unpack(">H", packet_data[:2])[0]
UnpackBE16(b) == b[1] * 256 + b[2]

\* A decoder that takes the last payload byte of a battery frame, not the first
ParsePacket_LastByte(bytes) ==
  IF Len(bytes) < 2 THEN NoPacket
  ELSE IF bytes[1] = PACKET_ID_BATTERY_SOC
    THEN [packet_id |-> bytes[1], parsed_value |-> bytes[Len(bytes)]]
  ELSE IF bytes[1] = PACKET_ID_TEMPERATURE /\ Len(bytes) >= 3
    THEN [packet_id |-> bytes[1], parsed_value |-> UnpackBE16(SubSeq(bytes, 2, 3))]
  ELSE NoPacket

ParsePacket(bytes) ==
  IF Len(bytes) < 2 THEN NoPacket
  ELSE LET packet_id == bytes[1]
           packet_data == SubSeq(bytes, 2, Len(bytes))
       IN IF packet_id = PACKET_ID_BATTERY_SOC /\ Len(packet_data) >= 1
            THEN [packet_id |-> packet_id, parsed_value |-> packet_data[1]]
          ELSE IF packet_id = PACKET_ID_TEMPERATURE /\ Len(packet_data) >= 2
            THEN [packet_id |-> packet_id,
                  parsed_value |-> UnpackBE16(SubSeq(packet_data, 1, 2))]
          ELSE NoPacket

\* parsed_value / 10.0, kept as <<whole degrees, tenths>>
TemperatureCelsius(parsed_value) == <<parsed_value \div 10, parsed_value % 10>>

\* The packet the handler acts on: none for the delimiter or an unparsed frame
HandledPacket(bytes) ==
  IF bytes = FRAME_DELIMITER THEN NoPacket ELSE ParsePacket(bytes)

\* A handler whose temperature branch does not set `updated`
HandlerUpdated_BatteryOnly(packet) == packet.packet_id = PACKET_ID_BATTERY_SOC

\* The value of `updated` at the end of _notification_handler
HandlerUpdated(packet) ==
  packet.packet_id \in {PACKET_ID_BATTERY_SOC, PACKET_ID_TEMPERATURE}

\* A handler that builds a new store holding only the reading just applied
ApplyPacket_FreshStore(d, packet) ==
  IF packet.packet_id = PACKET_ID_BATTERY_SOC
    THEN [battery |-> packet.parsed_value, temperature |-> NoTemperature]
  ELSE IF packet.packet_id = PACKET_ID_TEMPERATURE
    THEN [battery |-> NoBattery,
          temperature |-> TemperatureCelsius(packet.parsed_value)]
  ELSE d

\* self.data after the handler's assignments
ApplyPacket(d, packet) ==
  IF packet.packet_id = PACKET_ID_BATTERY_SOC
    THEN [d EXCEPT !.battery = packet.parsed_value]
  ELSE IF packet.packet_id = PACKET_ID_TEMPERATURE
    THEN [d EXCEPT !.temperature = TemperatureCelsius(packet.parsed_value)]
  ELSE d

\* HyenaBatterySensor.native_value: the published battery percentage
BatteryNativeValue == data.battery

\* ------------------------------------------------------------ link state
\* A check of the handle alone, without is_connected
IsConnected_HandleOnly == client # NoLink

\* `self._client and self._client.is_connected`
IsConnected == client # NoLink /\ client \in linkOpen

\* A link object that is referenced nowhere may stand for a new connection
FreeLinks == {l \in Links : l \notin linkOpen /\ l \notin pendingCb /\ l # client}
FreshLink == CHOOSE l \in FreeLinks : \A m \in FreeLinks : l <= m

FreeReconn == {r \in ReconnTasks : pc[r] = "off"}
FreeIdle == {d \in IdleTasks : pc[d] = "off" \/ d = disconnect_task}

Init ==
  /\ pc = [t \in Tasks |-> IF t = First THEN "start" ELSE "off"]
  /\ lockQ = <<>>
  /\ client = NoLink
  /\ linkOpen = {}
  /\ subscribed = {}
  /\ pendingCb = {}
  /\ expected = FALSE
  /\ disconnect_task = NoTask
  /\ remaining = [d \in IdleTasks |-> 0]
  /\ idleFor = 0
  /\ data = [battery |-> NoBattery, temperature |-> NoTemperature]
  /\ entry = "setup"
  /\ firstRefresh = "pending"
  /\ shutdowns = 0
  /\ raced = {}
  /\ last = Step(Env, "init", {}, "none", NoFrame, NoLink)
  /\ cfgEntries = [a \in Addresses |-> 0]
  /\ flows = [f \in Flows |-> IdleFlow]


\* ------------------------------------------------------ _ensure_connection
\* A caller that skips the check under the lock and always connects
EnsureNeeded_NoRecheck == TRUE

\* Line 80, negated: a connection has to be made
EnsureNeeded == ~IsConnected

\* What async_setup_entry sees of the first refresh
RefreshOutcome(t, res) == IF t = First THEN res ELSE firstRefresh

\* The body of _ensure_connection from the moment the lock is held up to its
\* first suspension point; q is the lock queue with t at its head.
EnsureLocked(t, q) ==
  /\ UNCHANGED <<client, linkVars, expected, timerVars, idleFor, data, entry,
                 shutdowns>>
  /\ \/ /\ ~EnsureNeeded                       \* line 81: return
        /\ lockQ' = Tail(q)
        /\ pc' = [pc EXCEPT ![t] = "off"]
        /\ firstRefresh' = RefreshOutcome(t, "ok")
        /\ raced' = raced \ {t}
        /\ last' = Step(t, "ensure_noop", {}, "none", NoFrame, NoLink)
     \/ /\ EnsureNeeded                        \* lines 91-94: no ble_device
        /\ lockQ' = Tail(q)
        /\ pc' = [pc EXCEPT ![t] = "off"]
        /\ firstRefresh' = RefreshOutcome(t, "failed")
        /\ raced' = raced \ {t}
        /\ last' = Step(t, "resolve_failed", {}, "UpdateFailed", NoFrame, NoLink)
     \/ /\ EnsureNeeded                        \* line 97: await establish_connection
        /\ lockQ' = q
        /\ pc' = [pc EXCEPT ![t] = "establish"]
        /\ UNCHANGED <<firstRefresh, raced>>
        /\ last' = Step(t, "establish_called", {"establish_connection"}, "none",
                        NoFrame, NoLink)

\* _async_update_data up to its first suspension point
AsyncUpdateData(t) ==
  /\ UNCHANGED flowVars
  /\ t \in UpdateTasks
  /\ \/ pc[t] = "start"
     \/ t = Tick /\ pc[t] = "off" /\ entry = "loaded"
  /\ IF IsConnected
       THEN /\ pc' = [pc EXCEPT ![t] = "off"]       \* line 75: return self.data
            /\ firstRefresh' = RefreshOutcome(t, "ok")
            /\ last' = Step(t, "update_noop", {}, "none", NoFrame, NoLink)
            /\ raced' = raced \ {t}
            /\ UNCHANGED <<lockQ, client, linkVars, expected, timerVars, idleFor,
                           data, entry, shutdowns>>
     ELSE IF lockQ = <<>>
       THEN EnsureLocked(t, <<t>>)
     ELSE /\ lockQ' = Append(lockQ, t)              \* line 79: wait for the lock
          /\ pc' = [pc EXCEPT ![t] = "lockwait"]
          /\ last' = Step(t, "ensure_wait", {}, "none", NoFrame, NoLink)
          /\ UNCHANGED <<client, linkVars, expected, timerVars, idleFor, data,
                         setupVars, shutdowns, raced>>

\* A waiting caller is handed the lock
EnsureAcquired(t) ==
  /\ UNCHANGED flowVars
  /\ t \in UpdateTasks
  /\ pc[t] = "lockwait"
  /\ lockQ # <<>> /\ Head(lockQ) = t
  /\ EnsureLocked(t, lockQ)

\* establish_connection returns a connected client; start_notify is called
EstablishOK(t) ==
  /\ UNCHANGED flowVars
  /\ t \in UpdateTasks
  /\ pc[t] = "establish"
  /\ FreeLinks # {}
  /\ client' = FreshLink
  /\ linkOpen' = linkOpen \cup {FreshLink}
  /\ idleFor' = 0
  /\ pc' = [pc EXCEPT ![t] = "subscribe"]
  /\ last' = Step(t, "established", {"start_notify"}, "none", NoFrame, FreshLink)
  /\ UNCHANGED <<lockQ, subscribed, pendingCb, expected, timerVars, data,
                 setupVars, shutdowns, raced>>

\* Leaving _ensure_connection with UpdateFailed (line 120)
EnsureFailed(t, op) ==
  /\ lockQ' = Tail(lockQ)
  /\ pc' = [pc EXCEPT ![t] = "off"]
  /\ firstRefresh' = RefreshOutcome(t, "failed")
  /\ last' = Step(t, op, {}, "UpdateFailed", NoFrame, NoLink)
  /\ raced' = raced \ {t}
  /\ UNCHANGED <<client, linkVars, expected, timerVars, idleFor, data, entry,
                 shutdowns>>

\* establish_connection raises BleakError or TimeoutError
EstablishFail(t) ==
  /\ UNCHANGED flowVars
  /\ t \in UpdateTasks
  /\ pc[t] = "establish"
  /\ EnsureFailed(t, "establish_failed")

\* start_notify returns
SubscribeOK(t) ==
  /\ UNCHANGED flowVars
  /\ t \in UpdateTasks
  /\ pc[t] = "subscribe"
  /\ IsConnected
  /\ subscribed' = subscribed \cup {client}
  /\ lockQ' = Tail(lockQ)
  /\ pc' = [pc EXCEPT ![t] = "off"]
  /\ firstRefresh' = RefreshOutcome(t, "ok")
  /\ last' = Step(t, "subscribed", {}, "none", NoFrame, client)
  /\ raced' = raced \ {t}
  /\ UNCHANGED <<client, linkOpen, pendingCb, expected, timerVars, idleFor,
                 data, entry, shutdowns>>

\* start_notify raises BleakError or TimeoutError
SubscribeFail(t) ==
  /\ UNCHANGED flowVars
  /\ t \in UpdateTasks
  /\ pc[t] = "subscribe"
  /\ EnsureFailed(t, "subscribe_failed")

\* ------------------------------------------------------------ the adapter
\* _disconnected_callback for link l (lines 125-133)
Callback(l) ==
  IF expected
    THEN /\ last' = Step(Env, "callback_expected", {}, "none", NoFrame, l)
         /\ UNCHANGED <<pc, client>>
    ELSE /\ FreeReconn # {}
         /\ client' = NoLink
         /\ pc' = [pc EXCEPT ![CHOOSE x \in FreeReconn : TRUE] = "start"]
         /\ last' = Step(Env, "callback_unexpected", {"async_create_task"},
                         "none", NoFrame, l)

\* The peer or the radio drops an open link: the backend clears is_connected
\* and calls the disconnected callback in the same event-loop callback
LinkDrop(l) ==
  /\ UNCHANGED flowVars
  /\ l \in linkOpen
  /\ linkOpen' = linkOpen \ {l}
  /\ subscribed' = subscribed \ {l}
  /\ Callback(l)
  /\ UNCHANGED <<lockQ, pendingCb, expected, timerVars, idleFor, data,
                 setupVars, shutdowns, raced>>

\* The adapter delivers the disconnected callback of a link that was closed
\* by disconnect(), while disconnect() is awaited or after it has returned
DisconnectedCallback(l) ==
  /\ UNCHANGED flowVars
  /\ l \in pendingCb
  /\ pendingCb' = pendingCb \ {l}
  /\ Callback(l)
  /\ UNCHANGED <<lockQ, linkOpen, subscribed, expected, timerVars, idleFor,
                 data, setupVars, shutdowns, raced>>

\* -------------------------------------------------------- _async_disconnect
\* The `finally` of _async_disconnect and the release of the lock
DisconnectFinally(t, op, err) ==
  /\ client' = NoLink
  /\ expected' = FALSE
  /\ lockQ' = Tail(lockQ)
  /\ pc' = [pc EXCEPT ![t] = "off"]
  /\ shutdowns' = IF t = Shut THEN shutdowns + 1 ELSE shutdowns
  /\ last' = Step(t, op, {}, err, NoFrame, client)

\* Reconnection tasks not yet past the lock when shutdown passes it
Overtaken(t) ==
  IF t = Shut THEN {r \in ReconnTasks : pc[r] \in {"start", "lockwait"}} ELSE {}

\* The body of _async_disconnect from the moment the lock is held up to its
\* first suspension point; q is the lock queue with t at its head.
DisconnectLocked(t, q) ==
  /\ raced' = raced \cup Overtaken(t)
  /\ UNCHANGED <<client, linkVars, idleFor, data>>
  /\ IF ~IsConnected
       THEN /\ lockQ' = Tail(q)                     \* line 238: return
            /\ pc' = [pc EXCEPT ![t] = "off"]
            /\ shutdowns' = IF t = Shut THEN shutdowns + 1 ELSE shutdowns
            /\ last' = Step(t, "disconnect_noop", {}, "none", NoFrame, NoLink)
            /\ UNCHANGED expected
       ELSE /\ lockQ' = q                           \* lines 241-244
            /\ expected' = TRUE
            /\ pc' = [pc EXCEPT ![t] = "stop_notify"]
            /\ last' = Step(t, "stop_notify_called", {"stop_notify"}, "none",
                            NoFrame, client)
            /\ UNCHANGED shutdowns

\* An _async_disconnect that does not wait for the lock
DisconnectEnter_NoWait(t) == DisconnectLocked(t, <<t>> \o lockQ)

\* Entering _async_disconnect: take the free lock or queue for it
DisconnectEnter(t) ==
  IF lockQ = <<>>
    THEN DisconnectLocked(t, <<t>>)
    ELSE /\ lockQ' = Append(lockQ, t)
         /\ pc' = [pc EXCEPT ![t] = "lockwait"]
         /\ last' = Step(t, "disconnect_wait", {}, "none", NoFrame, NoLink)
         /\ UNCHANGED <<client, linkVars, expected, idleFor, data, shutdowns,
                        raced>>

DisconnectAcquired(t) ==
  /\ UNCHANGED flowVars
  /\ t \in DisconnectTasks
  /\ pc[t] = "lockwait"
  /\ lockQ # <<>> /\ Head(lockQ) = t
  /\ DisconnectLocked(t, lockQ)
  /\ UNCHANGED <<timerVars, setupVars>>

\* stop_notify returns; disconnect() is called (line 245)
StopNotifyOK(t) ==
  /\ UNCHANGED flowVars
  /\ t \in DisconnectTasks
  /\ pc[t] = "stop_notify"
  /\ subscribed' = subscribed \ {client}
  /\ pc' = [pc EXCEPT ![t] = "disconnect"]
  /\ last' = Step(t, "disconnect_called", {"disconnect"}, "none", NoFrame, client)
  /\ UNCHANGED <<lockQ, client, linkOpen, pendingCb, expected, timerVars,
                 idleFor, data, setupVars, shutdowns, raced>>

\* stop_notify raises BleakError: lines 246-250, disconnect() is skipped
StopNotifyFail(t) ==
  /\ UNCHANGED flowVars
  /\ t \in DisconnectTasks
  /\ pc[t] = "stop_notify"
  /\ DisconnectFinally(t, "stop_notify_failed", "none")
  /\ UNCHANGED <<linkVars, timerVars, idleFor, data, setupVars, raced>>

\* The adapter closes the link that disconnect() was called on
AdapterClose(t) ==
  /\ UNCHANGED flowVars
  /\ t \in DisconnectTasks
  /\ pc[t] = "disconnect"
  /\ client \in linkOpen
  /\ linkOpen' = linkOpen \ {client}
  /\ subscribed' = subscribed \ {client}
  /\ pendingCb' = pendingCb \cup {client}
  /\ last' = Step(Env, "adapter_close", {}, "none", NoFrame, client)
  /\ UNCHANGED <<pc, lockQ, client, expected, timerVars, idleFor, data,
                 setupVars, shutdowns, raced>>

\* disconnect() returns once the link is closed
DisconnectOK(t) ==
  /\ UNCHANGED flowVars
  /\ t \in DisconnectTasks
  /\ pc[t] = "disconnect"
  /\ client \notin linkOpen
  /\ DisconnectFinally(t, "disconnected", "none")
  /\ UNCHANGED <<linkVars, timerVars, idleFor, data, setupVars, raced>>

\* disconnect() raises BleakError, with the link closed or still open
DisconnectFail(t) ==
  /\ UNCHANGED flowVars
  /\ t \in DisconnectTasks
  /\ pc[t] = "disconnect"
  /\ DisconnectFinally(t, "disconnect_failed", "none")
  /\ UNCHANGED <<linkVars, timerVars, idleFor, data, setupVars, raced>>


\* ------------------------------------------------------ idle-disconnect timer
\* A reset or shutdown that drops the old task without cancelling it
Victim_NoCancel == NoTask

\* `if self._disconnect_task: self._disconnect_task.cancel()`: cancel() of a
\* finished task does nothing; a live task gets CancelledError at the
\* suspension point it is at (taken here in the same step as the cancel()).
Victim ==
  IF disconnect_task # NoTask /\ pc[disconnect_task] # "off"
    THEN disconnect_task ELSE NoTask

\* The victim is inside the try of _async_disconnect: its finally runs
VictimInTry == Victim # NoTask /\ pc[Victim] \in {"stop_notify", "disconnect"}

\* State left by the cancelled task: line 231 for a sleeping task, an
\* abandoned Lock.acquire for a waiting one, lines 248-250 and the release of
\* the lock for one inside the try
CancelPc == IF Victim # NoTask THEN [pc EXCEPT ![Victim] = "off"] ELSE pc
CancelLockQ == IF Victim # NoTask THEN SelectSeq(lockQ, LAMBDA x : x # Victim)
               ELSE lockQ
CancelClient == IF VictimInTry THEN NoLink ELSE client
\* A cancellation that leaves without the reset of line 250
CancelExpected_Kept == expected

CancelExpected == IF VictimInTry THEN FALSE ELSE expected
CancelRemaining == [x \in IdleTasks |-> IF x = Victim THEN 0 ELSE remaining[x]]
\* A cancelled stop_notify may or may not have removed the subscription
CancelSubscribed ==
  IF Victim # NoTask /\ pc[Victim] = "stop_notify"
    THEN {subscribed, subscribed \ {client}} ELSE {subscribed}

\* _disconnect_after_delay: the sleep is over, _async_disconnect is entered
TimerFire(d) ==
  /\ UNCHANGED flowVars
  /\ d \in IdleTasks
  /\ pc[d] = "sleep"
  /\ remaining[d] = 0
  /\ DisconnectEnter(d)
  /\ UNCHANGED <<timerVars, setupVars>>

\* One unit of time passes; a timer whose sleep is over fires before more time
\* passes. idleFor is kept only when the idle clock is tracked.
Elapse(track) ==
  /\ UNCHANGED flowVars
  /\ \A d \in IdleTasks : pc[d] = "sleep" => remaining[d] > 0
  /\ \/ \E d \in IdleTasks : pc[d] = "sleep"
     \/ track /\ IsConnected /\ idleFor <= DISCONNECT_DELAY
  /\ remaining' = [d \in IdleTasks |->
                     IF pc[d] = "sleep" THEN remaining[d] - 1 ELSE remaining[d]]
  /\ idleFor' = IF track /\ IsConnected
                  THEN Min(idleFor + 1, DISCONNECT_DELAY + 1)
                  ELSE idleFor
  /\ last' = Step(Env, "elapse", {}, "none", NoFrame, NoLink)
  /\ UNCHANGED <<pc, lockQ, client, linkVars, expected, disconnect_task, data,
                 setupVars, shutdowns, raced>>

\* ------------------------------------------------------ _notification_handler
\* _reset_disconnect_timer (lines 216-224); d is the task created at line 222
ResetDisconnectTimer(d) ==
  /\ pc' = [CancelPc EXCEPT ![d] = "sleep"]
  /\ lockQ' = CancelLockQ
  /\ client' = CancelClient
  /\ expected' = CancelExpected
  /\ subscribed' \in CancelSubscribed
  /\ remaining' = [CancelRemaining EXCEPT ![d] = DISCONNECT_DELAY]
  /\ disconnect_task' = d

NotificationHandler(bytes) ==
  /\ UNCHANGED flowVars
  /\ subscribed # {}
  /\ UNCHANGED <<linkOpen, pendingCb, setupVars, shutdowns, raced>>
  /\ LET packet == HandledPacket(bytes)
     IN IF HandlerUpdated(packet)
          THEN /\ FreeIdle # {}
               /\ data' = ApplyPacket(data, packet)
               /\ ResetDisconnectTimer(CHOOSE x \in FreeIdle : TRUE)
               /\ idleFor' = 0
               /\ last' = Step(Env, "notify",
                               {"async_set_updated_data", "reset_disconnect_timer"},
                               "none", bytes, NoLink)
          ELSE /\ last' = Step(Env, "notify", {}, "none", bytes, NoLink)
               /\ UNCHANGED <<pc, lockQ, client, subscribed, expected, timerVars,
                              idleFor, data>>

\* ------------------------------------------------------------ setup, unload
\* A setup that lets the failure of the first refresh through
SetupEntryResult_NotReady(refresh) ==
  IF refresh = "ok" THEN "loaded" ELSE "not_ready"

\* async_setup_entry, lines 29-47: what the entry becomes after the refresh
SetupEntryResult(refresh) == "loaded"

\* async_setup_entry after the first refresh has returned or raised
SetupFinish ==
  /\ UNCHANGED flowVars
  /\ entry = "setup"
  /\ firstRefresh # "pending"
  /\ entry' = SetupEntryResult(firstRefresh)
  /\ last' = Step(First, "setup_done", {}, "none", NoFrame, NoLink)
  /\ UNCHANGED <<pc, lockQ, client, linkVars, expected, timerVars, idleFor,
                 data, firstRefresh, shutdowns, raced>>

\* async_shutdown up to its first suspension point; async_unload_entry calls
\* it after the platforms are unloaded, which also ends the scheduler's ticks
AsyncShutdown ==
  /\ UNCHANGED flowVars
  /\ pc[Shut] = "off"
  /\ entry \in {"loaded", "unloaded"}
  /\ shutdowns < MaxShutdowns
  /\ entry' = "unloaded"
  /\ disconnect_task' = NoTask                       \* lines 254-256
  /\ remaining' = CancelRemaining
  /\ subscribed' \in CancelSubscribed
  /\ UNCHANGED <<linkOpen, pendingCb, idleFor, data, firstRefresh>>
  /\ IF lockQ = <<>>                                 \* line 258
       THEN /\ raced' = raced \cup Overtaken(Shut)
            /\ IF ~IsConnected
                 THEN /\ pc' = [CancelPc EXCEPT ![Shut] = "off"]
                      /\ lockQ' = <<>>
                      /\ shutdowns' = shutdowns + 1
                      /\ last' = Step(Shut, "disconnect_noop", {}, "none",
                                      NoFrame, NoLink)
                      /\ UNCHANGED <<client, expected>>
                 ELSE /\ pc' = [CancelPc EXCEPT ![Shut] = "stop_notify"]
                      /\ lockQ' = <<Shut>>
                      /\ expected' = TRUE
                      /\ last' = Step(Shut, "stop_notify_called", {"stop_notify"},
                                      "none", NoFrame, client)
                      /\ UNCHANGED <<client, shutdowns>>
       ELSE /\ pc' = [CancelPc EXCEPT ![Shut] = "lockwait"]
            /\ lockQ' = Append(CancelLockQ, Shut)
            /\ client' = CancelClient
            /\ expected' = CancelExpected
            /\ last' = Step(Shut, "disconnect_wait", {}, "none", NoFrame, NoLink)
            /\ UNCHANGED <<shutdowns, raced>>

\* ------------------------------------------------------------ config_flow.py
\* str.startswith
StartsWith(name, prefix) ==
  Len(name) >= Len(prefix) /\ SubSeq(name, 1, Len(prefix)) = prefix

\* Line 37, negated (and lines 100-101)
NameSupported(name) == name # NoName /\ StartsWith(name, DEVICE_NAME)

\* _async_current_ids(): the unique ids of the domain's entries
CurrentIds == {a \in Addresses : cfgEntries[a] > 0}

\* async_set_unique_id raises already_in_progress when another unfinished
\* flow of the handler has the same unique id
InProgress(f, id) ==
  \E g \in Flows \ {f} :
    flows[g].step \in {"confirm", "user"} /\ flows[g].unique_id = id

\* A flow that goes on although the unique id has an entry
AbortIfUniqueIdConfigured_Never(id) == FALSE

\* _abort_if_unique_id_configured() raises already_configured
AbortIfUniqueIdConfigured(id) == id \in CurrentIds

\* Lines 41-42 and 82-83
SetUniqueIdOutcome(f, id) ==
  IF InProgress(f, id) THEN "aborted_in_progress"
  ELSE IF AbortIfUniqueIdConfigured(id) THEN "aborted_configured"
  ELSE "ok"

\* Flows are started in the order of their numbers
Startable(f) ==
  /\ flows[f].step = "idle"
  /\ IF f = 1 THEN TRUE ELSE flows[f - 1].step # "idle"

\* async_create_entry with the address as data
CreateEntry(f, address) ==
  /\ cfgEntries' = [cfgEntries EXCEPT ![address] = @ + 1]
  /\ flows' = [flows EXCEPT ![f] = [@ EXCEPT !.step = "created",
                                             !.unique_id = address,
                                             !.choices = {}]]

\* async_step_bluetooth up to the confirmation form
StepBluetooth(f, address, name) ==
  /\ Startable(f)
  /\ IF ~NameSupported(name)
       THEN flows' = [flows EXCEPT ![f] =
                        [IdleFlow EXCEPT !.source = "bluetooth",
                                         !.step = "aborted_not_supported",
                                         !.name = name]]
       ELSE LET o == SetUniqueIdOutcome(f, address)
            IN flows' = [flows EXCEPT ![f] =
                           [IdleFlow EXCEPT
                              !.source = "bluetooth",
                              !.step = IF o = "ok" THEN "confirm" ELSE o,
                              !.unique_id = address,
                              !.name = name]]
  /\ UNCHANGED <<cfgEntries, coordinatorVars>>

\* async_step_confirm with user_input: the operator confirms the discovery
StepConfirm(f) ==
  /\ flows[f].step = "confirm"
  /\ CreateEntry(f, flows[f].unique_id)
  /\ UNCHANGED coordinatorVars

\* async_step_user without user_input: scan and show the form; names gives the
\* advertised name of every device the scan returns
StepUserForm(f, names) ==
  /\ Startable(f)
  /\ flows' = [flows EXCEPT ![f] =
                 [IdleFlow EXCEPT
                    !.source = "user",
                    !.step = "user",
                    !.choices = {a \in DOMAIN names :
                                   NameSupported(names[a]) /\ a \notin CurrentIds}]]
  /\ UNCHANGED <<cfgEntries, coordinatorVars>>

\* async_step_user with user_input: an address picked from the discovered
\* devices, or typed in when none was discovered
StepUserSubmit(f, address) ==
  /\ flows[f].step = "user"
  /\ flows[f].choices # {} => address \in flows[f].choices
  /\ LET o == SetUniqueIdOutcome(f, address)
     IN IF o = "ok"
          THEN CreateEntry(f, address)
          ELSE /\ flows' = [flows EXCEPT ![f] =
                              [@ EXCEPT !.step = o, !.unique_id = address,
                                        !.choices = {}]]
               /\ UNCHANGED cfgEntries
  /\ UNCHANGED coordinatorVars

NextFlow ==
  \/ \E f \in Flows, a \in Addresses, n \in TestNames : StepBluetooth(f, a, n)
  \/ \E f \in Flows : StepConfirm(f)
  \/ \E f \in Flows, seen \in SUBSET Addresses :
       \E names \in [seen -> ScanNames] : StepUserForm(f, names)
  \/ \E f \in Flows, a \in Addresses : StepUserSubmit(f, a)

SpecFlow == Init /\ [][NextFlow]_vars

\* ------------------------------------------------------------ specification
\* Frames the device sends while the connection lifecycle is explored
LifecycleFrames == {<<10, 80>>}

Next ==
  \/ \E t \in UpdateTasks : AsyncUpdateData(t)
  \/ \E t \in UpdateTasks : EnsureAcquired(t)
  \/ \E t \in UpdateTasks : EstablishOK(t)
  \/ \E t \in UpdateTasks : EstablishFail(t)
  \/ \E t \in UpdateTasks : SubscribeOK(t)
  \/ \E t \in UpdateTasks : SubscribeFail(t)
  \/ \E l \in Links : LinkDrop(l)
  \/ \E l \in Links : DisconnectedCallback(l)
  \/ \E t \in DisconnectTasks : DisconnectAcquired(t)
  \/ \E t \in DisconnectTasks : StopNotifyOK(t)
  \/ \E t \in DisconnectTasks : StopNotifyFail(t)
  \/ \E t \in DisconnectTasks : AdapterClose(t)
  \/ \E t \in DisconnectTasks : DisconnectOK(t)
  \/ \E t \in DisconnectTasks : DisconnectFail(t)
  \/ \E d \in IdleTasks : TimerFire(d)
  \/ Elapse(FALSE)
  \/ \E f \in LifecycleFrames : NotificationHandler(f)
  \/ SetupFinish
  \/ AsyncShutdown

Spec == Init /\ [][Next]_vars

\* The same program with the idle clock tracked: idleFor counts the time since
\* the link came up or the last reading arrived
NextTimed ==
  \/ \E t \in UpdateTasks : AsyncUpdateData(t)
  \/ \E t \in UpdateTasks : EnsureAcquired(t)
  \/ \E t \in UpdateTasks : EstablishOK(t)
  \/ \E t \in UpdateTasks : EstablishFail(t)
  \/ \E t \in UpdateTasks : SubscribeOK(t)
  \/ \E t \in UpdateTasks : SubscribeFail(t)
  \/ \E l \in Links : LinkDrop(l)
  \/ \E l \in Links : DisconnectedCallback(l)
  \/ \E t \in DisconnectTasks : DisconnectAcquired(t)
  \/ \E t \in DisconnectTasks : StopNotifyOK(t)
  \/ \E t \in DisconnectTasks : StopNotifyFail(t)
  \/ \E t \in DisconnectTasks : AdapterClose(t)
  \/ \E t \in DisconnectTasks : DisconnectOK(t)
  \/ \E t \in DisconnectTasks : DisconnectFail(t)
  \/ \E d \in IdleTasks : TimerFire(d)
  \/ Elapse(TRUE)
  \/ \E f \in LifecycleFrames : NotificationHandler(f)
  \/ SetupFinish
  \/ AsyncShutdown

SpecTimed == Init /\ [][NextTimed]_vars

\* The notification path on an established, subscribed link: the empty frame,
\* every test tag followed by up to MaxPayloadLen payload bytes, the frame
\* delimiter and another 8-byte frame, with the idle timer sleeping
TestPayloads == UNION {[1..n -> TestPayloadBytes] : n \in 0..MaxPayloadLen}
TestFrames ==
  {<<>>, FRAME_DELIMITER, <<238, 0, 0, 0, 0, 0, 0, 235>>}
    \cup {<<tag>> \o payload : tag \in TestTags, payload \in TestPayloads}

InitTelemetry ==
  /\ pc = [t \in Tasks |-> "off"]
  /\ lockQ = <<>>
  /\ client = 1
  /\ linkOpen = {1}
  /\ subscribed = {1}
  /\ pendingCb = {}
  /\ expected = FALSE
  /\ disconnect_task = NoTask
  /\ remaining = [d \in IdleTasks |-> 0]
  /\ idleFor = 0
  /\ data = [battery |-> NoBattery, temperature |-> NoTemperature]
  /\ entry = "loaded"
  /\ firstRefresh = "ok"
  /\ shutdowns = 0
  /\ raced = {}
  /\ last = Step(First, "subscribed", {}, "none", NoFrame, 1)
  /\ cfgEntries = [a \in Addresses |-> 0]
  /\ flows = [f \in Flows |-> IdleFlow]

NextTelemetry ==
  \/ \E f \in TestFrames : NotificationHandler(f)
  \/ Elapse(FALSE)

SpecTelemetry == InitTelemetry /\ [][NextTelemetry]_vars

TypeOK ==
  /\ pc \in [Tasks -> {"off", "start", "lockwait", "establish", "subscribe",
                       "sleep", "stop_notify", "disconnect"}]
  /\ client \in {NoLink} \cup Links
  /\ linkOpen \subseteq Links
  /\ subscribed \subseteq linkOpen
  /\ pendingCb \subseteq Links
  /\ expected \in BOOLEAN
  /\ disconnect_task \in {NoTask} \cup IdleTasks
  /\ idleFor \in 0..(DISCONNECT_DELAY + 1)
  /\ \A d \in IdleTasks : remaining[d] \in 0..DISCONNECT_DELAY
  /\ shutdowns \in 0..MaxShutdowns
  /\ \A i \in 1..Len(lockQ) : pc[lockQ[i]] # "off"


\* ==================================================================== claims
Connecting == {t \in UpdateTasks : pc[t] \in {"establish", "subscribe"}}

\* C1: callers of _ensure_connection that overlap make one connection between
\* them: establish_connection is in flight only while the manager is not
\* connected, at most one caller is between establish_connection and the end
\* of start_notify, start_notify is called on a link that has no subscription
\* yet, and a caller that finds the manager connected once it holds the lock
\* returns without calling the adapter.
C1_OneConnectPerRace ==
  /\ \A t \in UpdateTasks : pc[t] = "establish" => ~IsConnected
  /\ Cardinality(Connecting) <= 1
  /\ \A t \in UpdateTasks : pc[t] = "subscribe" => client \notin subscribed
  /\ last.op = "ensure_noop" => IsConnected /\ last.calls = {}

\* A second caller waited for the lock and returned; one link is open and
\* subscribed
C1_Witness ==
  /\ last.op = "ensure_noop"
  /\ last.task \in {Tick} \cup ReconnTasks
  /\ linkOpen = {client}
  /\ subscribed = {client}


Disconnecting == {t \in DisconnectTasks :
                    pc[t] \in {"lockwait", "stop_notify", "disconnect"}}
Spawned == {r \in ReconnTasks : pc[r] = "off" /\ pc'[r] = "start"}
NoData == [battery |-> NoBattery, temperature |-> NoTemperature]

\* C2: the disconnected callback of a link that the manager closed with
\* disconnect() schedules no reconnection task, whenever it is delivered; a
\* link that drops while no disconnect is marked expected schedules exactly one.
C2_ManagerDisconnectNeverReconnects ==
  [][/\ \A l \in pendingCb : l \notin pendingCb' => Spawned = {}
     /\ \A l \in linkOpen :
          l \notin linkOpen' /\ l \notin pendingCb' /\ ~expected
            => Cardinality(Spawned) = 1]_vars

\* C3: whenever the manager is connected and subscribed and more than a full
\* inactivity window has passed since the link came up or the last reading
\* arrived, a disconnect of the link is under way.
C3_IdleWindowDisconnects ==
  IsConnected /\ client \in subscribed /\ idleFor > DISCONNECT_DELAY
    => Disconnecting # {}

\* C4: when _async_disconnect, having found the manager connected, returns,
\* no error is raised, the link handle is cleared and the link it held is
\* closed.
C4_DisconnectAlwaysTearsDown ==
  [][\A t \in DisconnectTasks :
       pc[t] \in {"stop_notify", "disconnect"} /\ pc'[t] = "off"
         => /\ client' = NoLink
            /\ client \notin linkOpen'
            /\ last'.err = "none"]_vars

\* C5: a reconnection task that a shutdown overtook at the lock makes no
\* connection when it runs afterwards.
C5_OvertakenReconnectIsNoop ==
  \A r \in raced : pc[r] \notin {"establish", "subscribe"}

\* C6: when async_shutdown returns, no error is raised, the manager is not
\* connected and no idle-disconnect task is alive; a call made after a
\* completed one, with the manager still disconnected, calls nothing.
C6_ShutdownLeavesNothing ==
  [][shutdowns' = shutdowns + 1
       => /\ ~IsConnected'
          /\ \A d \in IdleTasks : pc'[d] = "off"
          /\ last'.err = "none"
          /\ (shutdowns >= 1 /\ pc[Shut] = "off" => last'.calls = {})]_vars

\* A frame that decodes to a reading: tag 0x0A with a payload byte or tag 0x07
\* with two payload bytes
IsReading(f) ==
  /\ f # FRAME_DELIMITER
  /\ Len(f) >= 2
  /\ f[1] = 10 \/ (f[1] = 7 /\ Len(f) >= 3)

\* C7 as stated: the handler notifies the Publisher and resets the idle timer
\* exactly when the stored value changed.
C7_NotifiesOnlyOnChange ==
  [][last'.op = "notify"
       => /\ "async_set_updated_data" \in last'.calls <=> data' # data
          /\ "reset_disconnect_timer" \in last'.calls <=> data' # data]_vars

\* C7, amended: the handler notifies the Publisher and resets the idle timer
\* exactly when the frame decodes to a reading, whether or not the value
\* differs from the stored one; after a reading one idle-disconnect task is
\* alive, at the start of a full window.
C7_NotifiesOnEveryReading ==
  last.op = "notify"
    => /\ "async_set_updated_data" \in last.calls <=> IsReading(last.frame)
       /\ "reset_disconnect_timer" \in last.calls <=> IsReading(last.frame)
       /\ IsReading(last.frame)
            => /\ disconnect_task # NoTask
               /\ pc[disconnect_task] = "sleep"
               /\ remaining[disconnect_task] = DISCONNECT_DELAY
               /\ \A d \in IdleTasks \ {disconnect_task} : pc[d] = "off"

\* A temperature reading of 23.5 was handled after a battery reading; the
\* Publisher was notified and the idle timer restarted
C7_Witness ==
  /\ last.op = "notify"
  /\ last.frame = <<7, 0, 235>>
  /\ last.calls = {"async_set_updated_data", "reset_disconnect_timer"}
  /\ data.temperature = <<23, 5>>
  /\ data.battery = 0

\* C8: a failed _ensure_connection raises UpdateFailed, has made no adapter
\* call when the address did not resolve, has released the lock, and leaves
\* the manager not connected, so that the next tick or reconnection task
\* (which connect only when line 72 finds no live link) tries again.
C8_FailureIsRecoverable ==
  last.op \in {"resolve_failed", "establish_failed", "subscribe_failed"}
    => /\ last.err = "UpdateFailed"
       /\ (last.op = "resolve_failed" => last.calls = {})
       /\ \A i \in 1..Len(lockQ) : lockQ[i] # last.task
       /\ ~IsConnected

\* C9: async_setup_entry loads the entry whatever the first refresh did, a
\* failing first refresh leaves both metrics absent, (and the store is filled
\* by a later connection: C9_Witness).
C9_SetupSurvivesFailedRefresh ==
  [][/\ entry = "setup" /\ entry' # "setup" => entry' = "loaded"
     /\ firstRefresh = "pending" /\ firstRefresh' = "failed" => data' = NoData]_vars

\* The entry is loaded after a failed first refresh and a reading has arrived
\* over a later connection
C9_Witness ==
  /\ entry = "loaded"
  /\ firstRefresh = "failed"
  /\ IsConnected
  /\ data.battery = 80

\* A frame the claim names as producing no reading
Ignorable(f) ==
  \/ f = FRAME_DELIMITER
  \/ Len(f) < 2
  \/ f[1] \notin {10, 7}
  \/ f[1] = 7 /\ Len(f) - 1 < 2

\* C10: handling the frame delimiter, a frame shorter than 2 bytes, a frame
\* with a tag other than 0x0A and 0x07, or a 0x07 frame with fewer than 2
\* payload bytes raises nothing and leaves the store, the Publisher and the
\* idle timer alone.
C10_IgnoredFramesChangeNothing ==
  [][last'.op = "notify" /\ Ignorable(last'.frame)
       => /\ data' = data
          /\ UNCHANGED <<pc, disconnect_task, remaining>>
          /\ last'.calls = {}
          /\ last'.err = "none"]_vars

\* The delimiter was handled while a reading was stored and the idle timer
\* was part of the way through its window
C10_Witness ==
  /\ last.op = "notify"
  /\ last.frame = FRAME_DELIMITER
  /\ data.battery # NoBattery
  /\ disconnect_task # NoTask
  /\ pc[disconnect_task] = "sleep"
  /\ remaining[disconnect_task] < DISCONNECT_DELAY

\* C11: after the handler has run on a frame with tag 0x0A and at least one
\* payload byte, the decoded value and the battery slot of the store are the
\* first payload byte, whatever bytes follow it.
C11_BatteryIsFirstPayloadByte ==
  last.op = "notify" /\ Len(last.frame) >= 2 /\ last.frame[1] = 10
    => /\ ParsePacket(last.frame).parsed_value = last.frame[2]
       /\ data.battery = last.frame[2]

\* A battery frame with two more payload bytes after the value was handled
C11_Witness ==
  /\ last.op = "notify"
  /\ last.frame = <<10, 235, 0, 0>>
  /\ data.battery = 235

\* C12: after the handler has run on a frame with tag 0x07 and payload bytes
\* b0, b1 (and possibly more), the decoded raw value is 256*b0 + b1 and the
\* stored temperature is that value divided by 10.
C12_TemperatureIsBigEndianTenths ==
  last.op = "notify" /\ Len(last.frame) >= 3 /\ last.frame[1] = 7
    => LET raw == 256 * last.frame[2] + last.frame[3]
       IN /\ ParsePacket(last.frame).parsed_value = raw
          /\ data.temperature = <<raw \div 10, raw % 10>>

\* Raw 235 with a third payload byte was stored as 23.5
C12_Witness ==
  /\ last.op = "notify"
  /\ last.frame = <<7, 0, 235, 235>>
  /\ data.temperature = <<23, 5>>

\* C13: the published battery percentage is absent or an integer from 0 to
\* 100.
C13_BatteryInPercentRange ==
  BatteryNativeValue = NoBattery \/ BatteryNativeValue \in 0..100

\* C14: a reading replaces the stored value of its own metric and leaves the
\* other metric as it was.
C14_ReadingReplacesOwnSlotOnly ==
  [][last'.op = "notify" /\ IsReading(last'.frame)
       => LET f == last'.frame
          IN /\ f[1] = 10 => /\ data'.battery = f[2]
                              /\ data'.temperature = data.temperature
             /\ f[1] = 7 => /\ data'.temperature
                                  = <<(256 * f[2] + f[3]) \div 10,
                                      (256 * f[2] + f[3]) % 10>>
                             /\ data'.battery = data.battery]_vars

\* A battery reading of 0 replaced an earlier one while the temperature stored
\* before it was kept
C14_Witness ==
  /\ last.op = "notify"
  /\ last.frame = <<10, 0>>
  /\ data.battery = 0
  /\ data.temperature = <<6016, 0>>

\* The manager holds a handle of a link that is up
LinkLive == client # NoLink /\ client \in linkOpen

\* An update task is at the entry of _async_update_data, and takes its step
AtUpdateEntry(t) ==
  \/ pc[t] = "start" /\ pc'[t] # "start"
  \/ t = Tick /\ pc[t] = "off" /\ (pc'[t] # "off" \/ last'.task = Tick)

\* C15: no step of _async_update_data changes the store; entered while the
\* manager is connected it returns without calling the adapter or touching
\* the link state, and entered while it is not connected it goes into
\* _ensure_connection (waits for the lock, fails to resolve the device, or
\* calls establish_connection).
C15_TickOnlyEnsuresConnection ==
  [][/\ (\E t \in UpdateTasks : pc'[t] # pc[t] \/ last'.task = t)
          => data' = data
     /\ last'.op = "update_noop"
          => /\ LinkLive
             /\ last'.calls = {}
             /\ UNCHANGED <<client, linkOpen, subscribed, pendingCb, lockQ>>
     /\ \A t \in UpdateTasks :
          AtUpdateEntry(t)
            => IF LinkLive
                 THEN last'.op = "update_noop" /\ last'.task = t
                 ELSE \/ pc'[t] \in {"lockwait", "establish"}
                      \/ last'.op = "resolve_failed" /\ last'.task = t]_vars

\* A scheduler tick returned the stored reading over a live link
C15_Witness ==
  /\ last.op = "update_noop"
  /\ last.task = Tick
  /\ LinkLive
  /\ data.battery = 80

\* Tasks between the calls and the returns of stop_notify and disconnect()
Closing == {t \in DisconnectTasks : pc[t] \in {"stop_notify", "disconnect"}}

\* C17: at most one task is inside a connect sequence (establish, subscribe)
\* or a disconnect sequence (unsubscribe, close), and that task holds the
\* connection lock.
C17_ConnectAndDisconnectSerialized ==
  /\ Cardinality(Connecting \cup Closing) <= 1
  /\ \A t \in Connecting \cup Closing : lockQ # <<>> /\ Head(lockQ) = t

\* A tick waits for the lock while the idle timer's disconnect closes the link
C17_Witness ==
  /\ pc[Tick] = "lockwait"
  /\ \E d \in IdleTasks : pc[d] = "disconnect" /\ Head(lockQ) = d

\* C18: the link handle is set or cleared only in a step of the task that
\* holds the connection lock, the clearing on a reported disconnection
\* included.
C18_HandleChangesUnderLock ==
  [][client' # client
       => lockQ # <<>> /\ pc'[Head(lockQ)] # pc[Head(lockQ)]]_vars

\* Idle-disconnect tasks that are scheduled and neither finished nor cancelled
Outstanding == {d \in IdleTasks : pc[d] # "off"}

\* C19: at most one idle-disconnect task is outstanding, and it is the one
\* _disconnect_task refers to.
C19_OneIdleTimer ==
  /\ Cardinality(Outstanding) <= 1
  /\ \A d \in Outstanding : d = disconnect_task

\* With no shutdown called, a reading restarted the timer after the previous
\* timer task had entered _async_disconnect (cancelled inside it, or ended by
\* a failed unsubscribe): the handle is cleared, the link still up, and one
\* timer sleeps with a full window
C19_Witness ==
  /\ last.op = "notify"
  /\ entry = "loaded"
  /\ "reset_disconnect_timer" \in last.calls
  /\ client = NoLink
  /\ linkOpen # {}
  /\ Cardinality(Outstanding) = 1
  /\ remaining[disconnect_task] = DISCONNECT_DELAY

\* C20: whenever the lock is free and the manager holds a live link, the
\* notification handler is subscribed on that link.
C20_ConnectedMeansSubscribed ==
  lockQ = <<>> /\ LinkLive => client \in subscribed

\* Flows that created the entries of address a
CreatedFor(a) == {f \in Flows : flows[f].step = "created" /\ flows[f].unique_id = a}

\* C16: no address has two config entries, every entry was created by a flow
\* that was not aborted, and a Bluetooth discovery whose name is missing or
\* does not start with DEVICE_NAME is aborted as not supported (and so has
\* created no entry).
C16_OneEntryPerAddress ==
  /\ \A a \in Addresses : cfgEntries[a] <= 1
  /\ \A a \in Addresses : cfgEntries[a] = Cardinality(CreatedFor(a))
  /\ \A f \in Flows :
       /\ flows[f].source = "bluetooth"
       /\ \/ flows[f].name = <<>>
          \/ Len(flows[f].name) < Len(DEVICE_NAME)
          \/ SubSeq(flows[f].name, 1, Len(DEVICE_NAME)) # DEVICE_NAME
       => flows[f].step = "aborted_not_supported"

\* A confirmed discovery created the entry of an address, a user flow that
\* gave the same address was aborted as already configured, and a discovery
\* with a name that is only a part of DEVICE_NAME was aborted
C16_Witness ==
  \E f, g, h \in Flows :
    /\ flows[f].source = "bluetooth" /\ flows[f].step = "created"
    /\ flows[g].source = "user" /\ flows[g].step = "aborted_configured"
    /\ flows[g].unique_id = flows[f].unique_id
    /\ flows[h].step = "aborted_not_supported"
    /\ flows[h].name = <<"X", "W", "T", "K">>

\* C21: at most one link to the device is open, and whenever the lock is free
\* and the link handle is cleared no link is open.
C21_NoLinkLeftOpen ==
  /\ Cardinality(linkOpen) <= 1
  /\ lockQ = <<>> /\ client = NoLink => linkOpen = {}

\* C22: _expected_disconnect is set only while a task inside the try of
\* _async_disconnect holds the lock, so it is false whenever the lock is
\* free; and a link that drops while the lock is free is handled as an
\* unexpected disconnection: the handle is cleared and one reconnection task
\* is scheduled.
C22_ExpectedOnlyUnderLock ==
  [][/\ expected' => lockQ' # <<>> /\ Head(lockQ') \in Closing'
     /\ lockQ = <<>> /\ (\E l \in linkOpen : l \notin linkOpen')
          => client' = NoLink /\ Cardinality(Spawned) = 1]_vars

\* A disconnect ended with an adapter error from disconnect(): the lock is
\* free, the flag is reset and the link, still up, may drop later
C22_Witness ==
  /\ last.op = "disconnect_failed"
  /\ lockQ = <<>>
  /\ ~expected
  /\ linkOpen # {}

====
